---- MODULE Spec2Model ----
(***************************************************************************)
(* Model of redeployDatabasePods (src/main.go): one run of the redeploy    *)
(* against a cluster API.  The run is cut at its API calls; the cluster's  *)
(* answers (the listed Deployments, the listed Pods, success or failure of *)
(* each call) and the wall clock are the environment.                      *)
(***************************************************************************)
EXTENDS Integers, Sequences, FiniteSets, TLC

VARIABLES pc, deployments, deploymentsMap, remaining, deploymentName, label,
          pods, podIdx, output, err, now, apiLog

vars == <<pc, deployments, deploymentsMap, remaining, deploymentName, label,
          pods, podIdx, output, err, now, apiLog>>

-----------------------------------------------------------------------------
(* Bounds of the model *)

MaxDeployments == 2
MaxClock == 2

\* The clock counts half seconds; RFC3339 keeps whole seconds.
TicksPerSecond == 2

\* What time.Now() may return; a reading is never earlier than the one before
Times == 0..MaxClock

-----------------------------------------------------------------------------
(* Strings that are searched are sequences of characters *)

database == <<"d","a","t","a","b","a","s","e">>

database_primary ==
    <<"d","a","t","a","b","a","s","e","-","p","r","i","m","a","r","y">>
my_database_svc ==
    <<"m","y","-","d","a","t","a","b","a","s","e","-","s","v","c">>
web_frontend == <<"w","e","b","-","f","r","o","n","t","e","n","d">>
MyDatabase == <<"M","y","D","a","t","a","b","a","s","e">>

DeploymentNames == {database_primary, my_database_svc, web_frontend, MyDatabase}

\* appsv1.Deployment: the fields the run reads; the selector is a
\* metav1.LabelSelector with matchLabels {app: v}
Deployment(name, ns, app) ==
    [Name |-> name, Namespace |-> ns, Selector |-> [app |-> app]]

\* The Deployments the cluster may hold: two names are used in both namespaces
Deployments ==
    { Deployment(database_primary, "prod", "db"),
      Deployment(database_primary, "staging", "cache"),
      Deployment(my_database_svc, "staging", "db"),
      Deployment(my_database_svc, "prod", "cache"),
      Deployment(web_frontend, "prod", "db"),
      Deployment(MyDatabase, "staging", "cache") }

\* corev1.Pod objects the cluster may hold
ClusterPods ==
    { [Name |-> "db-0",    Namespace |-> "prod",    Labels |-> [app |-> "db"]],
      [Name |-> "db-1",    Namespace |-> "staging", Labels |-> [app |-> "db"]],
      [Name |-> "cache-0", Namespace |-> "staging", Labels |-> [app |-> "cache"]] }

\* Zero values
NoName == <<>>
NoLabel == <<>>
NoTime == ""
EmptyDetails == [Name |-> NoName, Pods |-> <<>>]
NoError == [kind |-> "none", deployment |-> NoName, pod |-> ""]

-----------------------------------------------------------------------------
(* Pure helpers *)

\* strings.Index: the first position (from 0) of substr in s at or after i, or -1
RECURSIVE IndexFrom(_, _, _)
IndexFrom(s, substr, i) ==
    IF i + Len(substr) > Len(s) THEN -1
    ELSE IF SubSeq(s, i + 1, i + Len(substr)) = substr THEN i
    ELSE IndexFrom(s, substr, i + 1)

\* A matcher that lost the first byte of the pattern
ContainsTail(s, substr) == IndexFrom(s, Tail(substr), 0) >= 0

\* strings.Contains
Contains(s, substr) == IndexFrom(s, substr, 0) >= 0

\* metav1.FormatLabelSelector: "key=value" for a matchLabels selector
FormatLabelSelector(sel) == <<"app", "=", sel.app>>

\* The API server's reading of ListOptions.LabelSelector against a pod
SelectorMatches(labelSelector, pod) ==
    /\ Len(labelSelector) = 3
    /\ labelSelector[2] = "="
    /\ labelSelector[1] \in DOMAIN pod.Labels
    /\ pod.Labels[labelSelector[1]] = labelSelector[3]

\* A map assignment that keeps an existing entry
MapPutIfAbsent(m, k, v) ==
    [x \in DOMAIN m \cup {k} |-> IF x \in DOMAIN m THEN m[x] ELSE v]

\* deploymentsMap[k] = v
MapPut(m, k, v) ==
    [x \in DOMAIN m \cup {k} |-> IF x = k THEN v ELSE m[x]]

\* The loop that fills deploymentsMap from deployments.Items
RECURSIVE BuildMap(_, _)
BuildMap(items, m) ==
    IF items = <<>> THEN m
    ELSE LET d == Head(items) IN
         BuildMap(Tail(items),
                  IF Contains(d.Name, database)
                  THEN MapPut(m, d.Name, FormatLabelSelector(d.Selector))
                  ELSE m)

\* time.Now().UTC().Format(time.RFC3339): whole seconds
FormatRFC3339(t) == t \div TicksPerSecond

\* A patch addressed to a fixed namespace
PatchNamespaceFixed(pod) == "prod"

\* Deployments(pod.Namespace)
PatchNamespace(pod) == pod.Namespace

\* An append at the front
RecordPodFront(out, podDetail) ==
    [out EXCEPT !.Pods = <<podDetail>> \o @]

\* output.Pods = append(output.Pods, podDetail)
RecordPod(out, podDetail) ==
    [out EXCEPT !.Pods = Append(@, podDetail)]

\* No element occurs twice in q
NoRep(q) == \A i, j \in 1..Len(q) : q[i] = q[j] => i = j

\* Sequences of length at most n over the set S
RECURSIVE SeqsUpTo(_, _)
SeqsUpTo(S, n) ==
    IF n = 0 THEN {<<>>}
    ELSE LET shorter == SeqsUpTo(S, n - 1) IN
         shorter \cup { Append(q, x) : q \in shorter, x \in S }

\* What a cluster-wide Deployment list may return
DeploymentLists == SeqsUpTo(Deployments, MaxDeployments)

\* What a pod list with the selector may return: any of the matching pods the
\* cluster holds at the time, in any order
PodLists(labelSelector) ==
    LET matching == { p \in ClusterPods : SelectorMatches(labelSelector, p) }
    IN { q \in SeqsUpTo(matching, Cardinality(matching)) : NoRep(q) }

\* One API call as the client saw it
Call(op, ns, name, sel, ts, ok, items) ==
    [op |-> op, ns |-> ns, name |-> name, sel |-> sel, ts |-> ts,
     ok |-> ok, items |-> items]

-----------------------------------------------------------------------------
(* The run *)

Init ==
    /\ pc = "list"
    /\ deployments = <<>>
    /\ deploymentsMap = <<>>
    /\ remaining = {}
    /\ deploymentName = NoName
    /\ label = NoLabel
    /\ pods = <<>>
    /\ podIdx = 1
    /\ output = EmptyDetails
    /\ err = NoError
    /\ now = 0
    /\ apiLog = <<>>

\* Lines 102-111: the Deployment list succeeds and the map is filled
ListDeploymentsOK(items) ==
    /\ pc = "list"
    /\ apiLog' = Append(apiLog,
                        Call("ListDeployments", "", NoName, NoLabel, NoTime, TRUE, items))
    /\ deployments' = items
    /\ deploymentsMap' = BuildMap(items, <<>>)
    /\ remaining' = DOMAIN deploymentsMap'
    /\ pc' = "range"
    /\ UNCHANGED <<deploymentName, label, pods, podIdx, output, err, now>>

\* Lines 102-105: the Deployment list fails
ListDeploymentsFail ==
    /\ pc = "list"
    /\ apiLog' = Append(apiLog,
                        Call("ListDeployments", "", NoName, NoLabel, NoTime, FALSE, <<>>))
    /\ err' = [kind |-> "list deployment", deployment |-> NoName, pod |-> ""]
    /\ pc' = "returned"
    /\ UNCHANGED <<deployments, deploymentsMap, remaining, deploymentName, label,
                   pods, podIdx, output, now>>

\* A pod list that leaves the loop variable as it was
ListPodsOKStale(name, items) ==
    /\ pc = "range"
    /\ name \in remaining
    /\ items \in PodLists(deploymentsMap[name])
    /\ remaining' = remaining \ {name}
    /\ label' = deploymentsMap[name]
    /\ apiLog' = Append(apiLog,
                        Call("ListPods", "", name, deploymentsMap[name], NoTime, TRUE, items))
    /\ output' = [output EXCEPT !.Name = name]
    /\ pods' = items
    /\ podIdx' = 1
    /\ pc' = IF items = <<>> THEN "range" ELSE "pods"
    /\ UNCHANGED <<deployments, deploymentsMap, deploymentName, err, now>>

\* Lines 113-119: the next key of the map in any order, its pods listed
ListPodsOK(name, items) ==
    /\ pc = "range"
    /\ name \in remaining
    /\ items \in PodLists(deploymentsMap[name])
    /\ remaining' = remaining \ {name}
    /\ deploymentName' = name
    /\ label' = deploymentsMap[name]
    /\ apiLog' = Append(apiLog,
                        Call("ListPods", "", name, deploymentsMap[name], NoTime, TRUE, items))
    /\ output' = [output EXCEPT !.Name = name]
    /\ pods' = items
    /\ podIdx' = 1
    /\ pc' = IF items = <<>> THEN "range" ELSE "pods"
    /\ UNCHANGED <<deployments, deploymentsMap, err, now>>

\* A failed pod list that is skipped over
ListPodsFailSkip(name) ==
    /\ pc = "range"
    /\ name \in remaining
    /\ remaining' = remaining \ {name}
    /\ deploymentName' = name
    /\ label' = deploymentsMap[name]
    /\ apiLog' = Append(apiLog,
                        Call("ListPods", "", name, deploymentsMap[name], NoTime, FALSE, <<>>))
    /\ UNCHANGED <<pc, deployments, deploymentsMap, pods, podIdx, output, err, now>>

\* Lines 113-117: the pod list of the next key fails
ListPodsFail(name) ==
    /\ pc = "range"
    /\ name \in remaining
    /\ remaining' = remaining \ {name}
    /\ deploymentName' = name
    /\ label' = deploymentsMap[name]
    /\ apiLog' = Append(apiLog,
                        Call("ListPods", "", name, deploymentsMap[name], NoTime, FALSE, <<>>))
    /\ err' = [kind |-> "list pods", deployment |-> name, pod |-> ""]
    /\ pc' = "returned"
    /\ UNCHANGED <<deployments, deploymentsMap, pods, podIdx, output, now>>

\* Lines 119-131: one pod of the list, the clock read at t; the patch succeeds
PatchOK(t) ==
    /\ pc = "pods"
    /\ podIdx <= Len(pods)
    /\ t \in Times /\ t >= now
    /\ now' = t
    /\ LET pod == pods[podIdx]
           timeStamp == FormatRFC3339(t)
       IN /\ apiLog' = Append(apiLog,
                              Call("Patch", PatchNamespace(pod), deploymentName,
                                   NoLabel, timeStamp, TRUE, <<>>))
          /\ output' = RecordPod(output,
                                 [Name |-> pod.Name, RestartedOn |-> timeStamp])
    /\ podIdx' = podIdx + 1
    /\ pc' = IF podIdx = Len(pods) THEN "range" ELSE "pods"
    /\ UNCHANGED <<deployments, deploymentsMap, remaining, deploymentName, label,
                   pods, err>>

\* A failed patch whose pod is recorded all the same
PatchFailRecorded(t) ==
    /\ pc = "pods"
    /\ podIdx <= Len(pods)
    /\ t \in Times /\ t >= now
    /\ now' = t
    /\ LET pod == pods[podIdx]
           timeStamp == FormatRFC3339(t)
       IN /\ apiLog' = Append(apiLog,
                              Call("Patch", PatchNamespace(pod), deploymentName,
                                   NoLabel, timeStamp, FALSE, <<>>))
          /\ output' = RecordPod(output,
                                 [Name |-> pod.Name, RestartedOn |-> timeStamp])
          /\ err' = [kind |-> "patch", deployment |-> deploymentName, pod |-> pod.Name]
    /\ pc' = "returned"
    /\ UNCHANGED <<deployments, deploymentsMap, remaining, deploymentName, label,
                   pods, podIdx>>

\* Lines 119-125: one pod of the list, the clock read at t; the patch fails
PatchFail(t) ==
    /\ pc = "pods"
    /\ podIdx <= Len(pods)
    /\ t \in Times /\ t >= now
    /\ now' = t
    /\ LET pod == pods[podIdx]
           timeStamp == FormatRFC3339(t)
       IN /\ apiLog' = Append(apiLog,
                              Call("Patch", PatchNamespace(pod), deploymentName,
                                   NoLabel, timeStamp, FALSE, <<>>))
          /\ err' = [kind |-> "patch", deployment |-> deploymentName, pod |-> pod.Name]
    /\ pc' = "returned"
    /\ UNCHANGED <<deployments, deploymentsMap, remaining, deploymentName, label,
                   pods, podIdx, output>>

\* Line 134: the map is exhausted
Return ==
    /\ pc = "range"
    /\ remaining = {}
    /\ pc' = "returned"
    /\ UNCHANGED <<deployments, deploymentsMap, remaining, deploymentName, label,
                   pods, podIdx, output, err, now, apiLog>>

Next ==
    \/ \E items \in DeploymentLists : ListDeploymentsOK(items)
    \/ ListDeploymentsFail
    \/ \E name \in DeploymentNames :
          \E items \in SeqsUpTo(ClusterPods, Cardinality(ClusterPods)) :
              ListPodsOK(name, items)
    \/ \E name \in DeploymentNames : ListPodsFail(name)
    \/ \E t \in Times : PatchOK(t)
    \/ \E t \in Times : PatchFail(t)
    \/ Return

Spec == Init /\ [][Next]_vars

-----------------------------------------------------------------------------
(* Reading the log of API calls *)

LogIdx == 1..Len(apiLog)
PatchIdx == { i \in LogIdx : apiLog[i].op = "Patch" }
PodListIdx == { i \in LogIdx : apiLog[i].op = "ListPods" }
Finished == pc = "returned" /\ err = NoError
Failed == pc = "returned" /\ err # NoError

\* The pod-list calls made before call i
PodListsBefore(i) == { j \in PodListIdx : j < i }

\* The latest pod-list call made before call i
LastPodList(i) ==
    CHOOSE j \in PodListsBefore(i) : \A k \in PodListsBefore(i) : k <= j

\* The pod a patch call was made for: patches follow their pod list in list order
PodOfPatch(i) == apiLog[LastPodList(i)].items[i - LastPodList(i)]

\* The name has the eight characters d,a,t,a,b,a,s,e in a row, in lower case
HasDatabase(n) ==
    \E i \in 1..Len(n) :
        /\ i + 7 <= Len(n)
        /\ n[i] = "d" /\ n[i+1] = "a" /\ n[i+2] = "t" /\ n[i+3] = "a"
        /\ n[i+4] = "b" /\ n[i+5] = "a" /\ n[i+6] = "s" /\ n[i+7] = "e"

\* The listed Deployments' names that have it
ListedMatching ==
    { deployments[i].Name : i \in { k \in 1..Len(deployments) :
                                       HasDatabase(deployments[k].Name) } }

\* The position of the last listed Deployment called n
LastListed(n) ==
    CHOOSE i \in 1..Len(deployments) :
        /\ deployments[i].Name = n
        /\ \A k \in 1..Len(deployments) : deployments[k].Name = n => k <= i

\* The pod names of every pod list of the log, in the order of the calls
RECURSIVE ListedPodNames(_)
ListedPodNames(log) ==
    IF log = <<>> THEN <<>>
    ELSE LET c == Head(log) IN
         (IF c.op = "ListPods" THEN [k \in 1..Len(c.items) |-> c.items[k].Name]
          ELSE <<>>) \o ListedPodNames(Tail(log))

\* The positions of the successful patch calls, in the order of the calls
RECURSIVE OkPatches(_)
OkPatches(i) ==
    IF i > Len(apiLog) THEN <<>>
    ELSE (IF apiLog[i].op = "Patch" /\ apiLog[i].ok THEN <<i>> ELSE <<>>)
         \o OkPatches(i + 1)

-----------------------------------------------------------------------------
(* The claims *)

\* C1: in a run that finishes without an API error, every matched Deployment
\* name carries exactly one Patch call, whatever the number of pods its
\* selector returns.
C1_PatchOncePerDeployment ==
    Finished =>
        \A n \in DOMAIN deploymentsMap :
            Cardinality({ i \in PatchIdx : apiLog[i].name = n }) = 1

\* C2: whenever the run returns an error, the DeploymentDetails returned with
\* it is empty: empty Name and no Pods.
C2_ErrorReturnsEmpty ==
    Failed => output = EmptyDetails

\* C3: a failed API call is the last call of the run: the run has returned
\* with an error, and the error of a failed pod list or patch names the
\* Deployment being processed.
C3_FailFast ==
    \A i \in LogIdx :
        ~apiLog[i].ok =>
            /\ i = Len(apiLog)
            /\ Failed
            /\ apiLog[i].op \in {"ListPods", "Patch"} =>
                  /\ err.deployment = apiLog[i].name
                  /\ err.deployment = deploymentName

\* A pod list failed while another matched Deployment was still to be processed
C3_Witness ==
    /\ Failed
    /\ apiLog[Len(apiLog)].op = "ListPods"
    /\ ~apiLog[Len(apiLog)].ok
    /\ remaining # {}
    /\ PatchIdx = {}

\* C4: a listed Deployment is selected iff its name has the substring
\* "database" in lower case; every pod list and patch is made for such a name,
\* and a run without an API error lists the pods of every such listed name.
C4_Selection ==
    /\ pc \notin {"list"} /\ apiLog[1].ok => DOMAIN deploymentsMap = ListedMatching
    /\ \A i \in PodListIdx \cup PatchIdx : HasDatabase(apiLog[i].name)
    /\ Finished =>
          \A n \in ListedMatching : \E i \in PodListIdx : apiLog[i].name = n

\* A finished run that listed MyDatabase and my-database-svc and patched the latter
C4_Witness ==
    /\ Finished
    /\ \E i, j \in 1..Len(deployments) :
          deployments[i].Name = MyDatabase /\ deployments[j].Name = my_database_svc
    /\ \E i \in PatchIdx : apiLog[i].name = my_database_svc /\ apiLog[i].ok

\* C5: all Patch calls made for one Deployment in one run, and so all the
\* PodOutcomes recorded for it, carry one and the same timestamp.
C5_SharedTimestamp ==
    \A i, j \in PatchIdx :
        apiLog[i].name = apiLog[j].name => apiLog[i].ts = apiLog[j].ts

\* C6: every Patch call is addressed to the namespace of the pod being
\* iterated, a pod of the Deployment's own pod list, with the Deployment's name.
C6_PatchNamespace ==
    \A i \in PatchIdx :
        /\ PodListsBefore(i) # {}
        /\ i - LastPodList(i) \in 1..Len(apiLog[LastPodList(i)].items)
        /\ apiLog[i].ns = PodOfPatch(i).Namespace
        /\ apiLog[i].name = apiLog[LastPodList(i)].name

\* A successful patch addressed to a (namespace, name) no listed Deployment has
C6_Witness ==
    \E i \in PatchIdx :
        /\ apiLog[i].ok
        /\ \A k \in 1..Len(deployments) :
              ~(deployments[k].Name = apiLog[i].name
                /\ deployments[k].Namespace = apiLog[i].ns)

\* C7: in a run that finishes without error the returned Pods are the pods of
\* the pod lists, concatenated in the order the Deployments were processed,
\* and the returned Name is that of the Deployment processed last.
C7_Flattened ==
    Finished =>
        /\ [k \in 1..Len(output.Pods) |-> output.Pods[k].Name] = ListedPodNames(apiLog)
        /\ PodListIdx # {} =>
              output.Name = apiLog[LastPodList(Len(apiLog) + 1)].name
        /\ PodListIdx = {} => output.Name = NoName

\* A finished run over two Deployments with pods each: the first name is lost
C7_Witness ==
    /\ Finished
    /\ \E i, j \in PodListIdx :
          /\ i < j
          /\ Len(apiLog[i].items) = 2
          /\ apiLog[j].items # <<>>
          /\ apiLog[i].items[1].Name # apiLog[j].items[1].Name
          /\ output.Name = apiLog[j].name
          /\ output.Name # apiLog[i].name

\* C8: in every state the recorded PodOutcomes are, in order, the pods of the
\* successful Patch calls, each patched in its own namespace under the
\* Deployment's name, with the timestamp that patch sent.
C8_RecordedAfterPatch ==
    LET ok == OkPatches(1) IN
    /\ Len(output.Pods) = Len(ok)
    /\ \A k \in 1..Len(ok) :
          /\ PodListsBefore(ok[k]) # {}
          /\ output.Pods[k].Name = PodOfPatch(ok[k]).Name
          /\ output.Pods[k].RestartedOn = apiLog[ok[k]].ts
          /\ apiLog[ok[k]].ns = PodOfPatch(ok[k]).Namespace
          /\ apiLog[ok[k]].name = apiLog[LastPodList(ok[k])].name

\* A patch failed after an earlier one succeeded: one outcome, two patch calls
C8_Witness ==
    /\ Failed
    /\ err.kind = "patch"
    /\ Len(output.Pods) = 1
    /\ Cardinality(PatchIdx) = 2

\* C9: the Deployment list is the first call and the only one of its kind;
\* every Patch call directly follows the pod list of its own Deployment or
\* another successful Patch call of that Deployment.
C9_Sequencing ==
    /\ \A i \in LogIdx : apiLog[i].op = "ListDeployments" <=> i = 1
    /\ \A i \in PatchIdx :
          /\ i > 1
          /\ apiLog[i-1].op \in {"ListPods", "Patch"}
          /\ apiLog[i-1].ok
          /\ apiLog[i-1].name = apiLog[i].name
    /\ \A i, j \in PodListIdx : apiLog[i].name = apiLog[j].name => i = j

\* Two Deployments processed, each with at least one patch
C9_Witness ==
    \E i, j \in PatchIdx :
        /\ i < j
        /\ apiLog[i].name # apiLog[j].name
        /\ pc = "returned"

\* C10: the map holds one entry per distinct matching name, with the selector
\* of the last listed Deployment of that name; every pod list uses that
\* selector, and a run without errors lists pods once per distinct name.
C10_NameCollision ==
    /\ \A n \in DOMAIN deploymentsMap :
          deploymentsMap[n] = FormatLabelSelector(deployments[LastListed(n)].Selector)
    /\ \A i \in PodListIdx :
          apiLog[i].sel =
              FormatLabelSelector(deployments[LastListed(apiLog[i].name)].Selector)
    /\ Finished =>
          /\ Cardinality(PodListIdx) = Cardinality(ListedMatching)
          /\ \A n \in ListedMatching :
                Cardinality({ i \in PodListIdx : apiLog[i].name = n }) = 1

\* Two listed Deployments of one matching name, in two namespaces with two
\* selectors, and a finished run with a single pod list
C10_Witness ==
    /\ Finished
    /\ Len(deployments) = 2
    /\ deployments[1].Name = deployments[2].Name
    /\ deployments[1].Namespace # deployments[2].Namespace
    /\ deployments[1].Selector # deployments[2].Selector
    /\ Cardinality(PodListIdx) = 1

====
